---- MODULE Spec2Model ----
(***************************************************************************)
(* ClientV3 of bare-transport (src/src/V3.ts): the WebSocket handshake     *)
(* state machine of connect() and the response decoding of request().      *)
(*                                                                         *)
(* Spec        one connect() call on a WHATWG WebSocket: the socket opens  *)
(*             once, delivers frames while OPEN, and fires close once, an  *)
(*             error event being followed only by close.                   *)
(* SpecRequest one request() call: fetch, then readBareResponse.           *)
(***************************************************************************)
EXTENDS Integers, Sequences, FiniteSets, TLC

VARIABLES
    pc,              \* "idle" before connect() is called, "connected" after
    url,             \* connect's url argument
    protocols,       \* connect's protocols argument
    requestHeaders,  \* the caller's RawHeaders array (connect and request push to it)
    wsState,         \* ws.readyState
    listeners,       \* ws's event listener lists, by event type
    wire,            \* payloads written to the underlying socket, in order
    calls,           \* invocations of onopen/onmessage/onclose/onerror, in order
    events,          \* events the socket has dispatched, in order
    thrown,          \* exceptions thrown out of a listener or out of send
    sends,           \* calls of the returned send function so far
    rq,              \* the request() call: position, inputs, physical response, outcome
    callerCalls,     \* the caller's calls of connect and request, in order
    client           \* the ClientV3 instance: base, ws and http

vars == <<pc, url, protocols, requestHeaders, wsState, listeners, wire, calls,
          events, thrown, sends, rq, callerCalls, client>>

connectVars == <<pc, url, protocols, requestHeaders, wsState, listeners, wire,
                 calls, events, thrown, sends, callerCalls, client>>

(***************************************************************************)
(* Bounds                                                                  *)
(***************************************************************************)
MaxFrames == 3     \* message events per socket
MaxSends == 1      \* calls of the returned send function
MaxCalls == 3      \* calls of connect and request the caller makes on one header array

(***************************************************************************)
(* JavaScript values.  A text (frame data, header value, body) is held as   *)
(* its syntax: t = "bad" is text that is not JSON, "obj" an object literal  *)
(* whose members are listed as written (names may repeat), "arr" an array   *)
(* literal, "str"/"null" the literals.  t = "bin" is a Blob/ArrayBuffer,    *)
(* t = "undef" is undefined.                                               *)
(***************************************************************************)
Val(t, s, items, members) == [t |-> t, s |-> s, items |-> items, members |-> members]
Undef == Val("undef", "", <<>>, <<>>)
JNull == Val("null", "", <<>>, <<>>)
JStr(s) == Val("str", s, <<>>, <<>>)
JArr(items) == Val("arr", "", items, <<>>)
JObj(members) == Val("obj", "", <<>>, members)
BadText(s) == Val("bad", s, <<>>, <<>>)
Binary(s) == Val("bin", s, <<>>, <<>>)

Digits == <<"0", "1", "2", "3">>
IndexStr(n) == Digits[n + 1]
IsIndexKey(k) == \E n \in 1..Len(Digits) : Digits[n] = k

Range(seq) == {seq[i] : i \in 1..Len(seq)}

\* The members of an object in own-property order: one member per name, at
\* the place the name was first set and with the value it was last set to,
\* index-like names first in ascending order.
LastValue(pairs, k) ==
    pairs[CHOOSE i \in 1..Len(pairs) :
            /\ pairs[i][1] = k
            /\ \A j \in (i + 1)..Len(pairs) : pairs[j][1] # k][2]

RECURSIVE Dedup(_, _)
Dedup(pairs, i) ==
    IF i > Len(pairs) THEN <<>>
    ELSE IF \E j \in 1..(i - 1) : pairs[j][1] = pairs[i][1]
         THEN Dedup(pairs, i + 1)
         ELSE <<<<pairs[i][1], LastValue(pairs, pairs[i][1])>>>> \o Dedup(pairs, i + 1)

RECURSIVE IndexMembers(_, _)
IndexMembers(ms, n) ==
    IF n > Len(Digits) - 1 THEN <<>>
    ELSE SelectSeq(ms, LAMBDA m : m[1] = IndexStr(n)) \o IndexMembers(ms, n + 1)

OwnProperties(pairs) ==
    LET ms == Dedup(pairs, 1)
    IN  IndexMembers(ms, 0) \o SelectSeq(ms, LAMBDA m : ~IsIndexKey(m[1]))

\* JSON.parse: a SyntaxError for text that is not JSON, otherwise the value,
\* an object keeping one member per name.
JSONParse(text) ==
    IF text.t = "bad" THEN [ok |-> FALSE, value |-> Undef]
    ELSE IF text.t = "obj"
         THEN [ok |-> TRUE, value |-> JObj(OwnProperties(text.members))]
         ELSE [ok |-> TRUE, value |-> text]

\* Object.fromEntries on an array of [name, value] string pairs.
ObjectFromEntries(entries) ==
    JObj(OwnProperties([i \in 1..Len(entries) |->
                           <<entries[i][1], JStr(entries[i][2])>>]))

\* Object.entries: [name, value] per own enumerable property; an array's
\* properties are its indices.  Throws on null and undefined.
ObjectEntries(v) ==
    IF v.t \in {"null", "undef"} THEN [ok |-> FALSE, entries |-> <<>>]
    ELSE IF v.t = "obj" THEN [ok |-> TRUE, entries |-> v.members]
    ELSE IF v.t = "arr"
         THEN [ok |-> TRUE,
               entries |-> [i \in 1..Len(v.items) |-> <<IndexStr(i - 1), v.items[i]>>]]
         ELSE [ok |-> TRUE, entries |-> <<>>]

\* v[name] for a parsed value: a TypeError on null, undefined when absent.
HasMember(v, name) == v.t = "obj" /\ \E i \in 1..Len(v.members) : v.members[i][1] = name
Member(v, name) ==
    IF HasMember(v, name)
    THEN v.members[CHOOSE i \in 1..Len(v.members) : v.members[i][1] = name][2]
    ELSE Undef

(***************************************************************************)
(* connect(): the socket, its listeners and the caller's callbacks          *)
(***************************************************************************)
Listener(name, once) == [name |-> name, once |-> once]

addEventListener(ls, type, name, once) ==
    [ls EXCEPT ![type] = Append(@, Listener(name, once))]

removeEventListener(ls, type, name) ==
    [ls EXCEPT ![type] = SelectSeq(@, LAMBDA e : e.name # name)]

Event(type, data, code, text) == [type |-> type, data |-> data, code |-> code, text |-> text]

\* A callback invocation: onopen(data, text), onmessage(data), onclose(code, text).
Invocation(cb, data, code, text) == [cb |-> cb, data |-> data, code |-> code, text |-> text]

Call(s, inv) == [s EXCEPT !.calls = Append(@, inv)]
Throw(s, by, error) == [s EXCEPT !.thrown = Append(@, [by |-> by, error |-> error])]

toString(u) == <<u.protocol, "//", u.host, u.path>>

\* The Connect control message built in the open listener, from the url and
\* protocols of the call and the header array as it is when the socket opens.
SocketClientToServer(u, p, h) ==
    [type |-> "connect",
     remote |-> toString(u),
     protocols |-> p,
     headers |-> ObjectFromEntries(h),
     forwardHeaders |-> <<>>]

ConnectMessage == SocketClientToServer(url, protocols, requestHeaders)

NoMessage ==
    [type |-> "", remote |-> <<>>, protocols |-> <<>>, headers |-> Undef,
     forwardHeaders |-> <<>>]

ControlPayload(msg) == [kind |-> "control", msg |-> msg, data |-> Undef]
DataPayload(data) == [kind |-> "data", msg |-> NoMessage, data |-> data]

\* Mutant of send: a payload sent while CONNECTING is written to the socket.
send_writesWhileConnecting(s, by, payload) ==
    IF s.readyState \in {"CONNECTING", "OPEN"} THEN [s EXCEPT !.wire = Append(@, payload)]
    ELSE s

\* WebSocket.prototype.send: InvalidStateError while CONNECTING, written to
\* the socket while OPEN, discarded while CLOSING or CLOSED.
send(s, by, payload) ==
    IF s.readyState = "CONNECTING" THEN Throw(s, by, "InvalidStateError")
    ELSE IF s.readyState = "OPEN" THEN [s EXCEPT !.wire = Append(@, payload)]
    ELSE s

\* Mutants of cleanup: one of the two removals forgotten.
cleanup_keepsMessageListener(s) ==
    [s EXCEPT !.listeners = removeEventListener(@, "close", "closeListener")]

cleanup_keepsCloseListener(s) ==
    [s EXCEPT !.listeners = removeEventListener(@, "message", "messageListener")]

cleanup(s) ==
    [s EXCEPT !.listeners =
        removeEventListener(removeEventListener(@, "close", "closeListener"),
                            "message", "messageListener")]

\* The checks messageListener makes on the first frame: "" when it is an
\* Open control message, otherwise the exception the listener throws.
HandshakeFault(data) ==
    IF data.t = "bin" THEN "TypeError: the first websocket message was not a text frame"
    ELSE IF ~JSONParse(data).ok THEN "SyntaxError"
    ELSE IF JSONParse(data).value.t = "null" THEN "TypeError: null has no properties"
    ELSE IF Member(JSONParse(data).value, "type") # JStr("open")
         THEN "TypeError: message was not of open type"
         ELSE ""

\* The pass-through listeners messageListener adds once the reply is accepted.
established(s) ==
    [s EXCEPT !.listeners =
        addEventListener(addEventListener(@, "message", "relayMessage", FALSE),
                         "close", "relayClose", FALSE)]

\* Mutant of messageListener: the handshake listeners are removed only once
\* the reply has been accepted.
messageListener_cleanupOnSuccess(ev, s) ==
    IF HandshakeFault(ev.data) # ""
    THEN Throw(s, "messageListener", HandshakeFault(ev.data))
    ELSE established(
            Call(cleanup(s), Invocation("onopen",
                                        Member(JSONParse(ev.data).value, "protocol"), 0, "")))

messageListener(ev, s) ==
    LET s1 == cleanup(s)
    IN  IF HandshakeFault(ev.data) # ""
        THEN Throw(s1, "messageListener", HandshakeFault(ev.data))
        ELSE established(
                Call(s1, Invocation("onopen",
                                    Member(JSONParse(ev.data).value, "protocol"), 0, "")))

closeListener(ev, s) == cleanup(Call(s, Invocation("onclose", Undef, ev.code, ev.text)))

relayMessage(ev, s) == Call(s, Invocation("onmessage", ev.data, 0, ""))

relayClose(ev, s) == Call(s, Invocation("onclose", Undef, ev.code, ev.text))

openListener(ev, s) == send(s, "openListener", ControlPayload(ConnectMessage))

\* Mutant of InitialListeners: the pass-through listener is registered up
\* front instead of after the handshake.
InitialListeners_relayUpFront ==
    [open |-> <<Listener("openListener", TRUE)>>,
     message |-> <<Listener("messageListener", FALSE), Listener("relayMessage", FALSE)>>,
     close |-> <<Listener("closeListener", FALSE)>>,
     error |-> <<>>]

\* The listeners connect() registers before it returns.
InitialListeners ==
    [open |-> <<Listener("openListener", TRUE)>>,
     message |-> <<Listener("messageListener", FALSE)>>,
     close |-> <<Listener("closeListener", FALSE)>>,
     error |-> <<>>]

Invoke(name, ev, s) ==
    CASE name = "openListener" -> openListener(ev, s)
      [] name = "messageListener" -> messageListener(ev, s)
      [] name = "closeListener" -> closeListener(ev, s)
      [] name = "relayMessage" -> relayMessage(ev, s)
      [] name = "relayClose" -> relayClose(ev, s)

\* Event dispatch: the listeners registered for the event's type when the
\* dispatch starts run in order; one removed meanwhile is skipped, one added
\* meanwhile does not run, a once listener is removed before it runs, and an
\* exception thrown by a listener is reported without stopping the others.
RECURSIVE RunListeners(_, _, _, _)
RunListeners(snapshot, i, ev, s) ==
    IF i > Len(snapshot) THEN s
    ELSE IF snapshot[i] \notin Range(s.listeners[ev.type])
         THEN RunListeners(snapshot, i + 1, ev, s)
         ELSE LET s1 == IF snapshot[i].once
                        THEN [s EXCEPT !.listeners =
                                 removeEventListener(@, ev.type, snapshot[i].name)]
                        ELSE s
              IN  RunListeners(snapshot, i + 1, ev, Invoke(snapshot[i].name, ev, s1))

dispatchEvent(ev, s) ==
    RunListeners(s.listeners[ev.type], 1, ev, [s EXCEPT !.events = Append(@, ev)])

\* The socket and callback state as one record, and back.
Socket(state) ==
    [readyState |-> state, listeners |-> listeners, wire |-> wire, calls |-> calls,
     events |-> events, thrown |-> thrown]

Becomes(s) ==
    /\ wsState' = s.readyState
    /\ listeners' = s.listeners
    /\ wire' = s.wire
    /\ calls' = s.calls
    /\ events' = s.events
    /\ thrown' = s.thrown

Fired(type) == \E i \in 1..Len(events) : events[i].type = type
MessageEvents == SelectSeq(events, LAMBDA e : e.type = "message")

(***************************************************************************)
(* Inputs                                                                  *)
(***************************************************************************)
Urls ==
    {[protocol |-> "wss:", host |-> "a.example", path |-> "/chat"],
     [protocol |-> "https:", host |-> "b.example", path |-> "/"]}

ProtocolLists == {<<"chat", "superchat">>}

HeaderArrays ==
    {<<>>,
     <<<<"Host", "c.example">>, <<"cookie", "a=1">>, <<"cookie", "b=2">>>>}

OpenFrame(p) ==
    JObj(<<<<"type", JStr("open")>>, <<"protocol", JStr(p)>>, <<"setCookies", JArr(<<>>)>>>>)

Frames ==
    {OpenFrame("chat"),
     OpenFrame(""),
     JObj(<<<<"type", JStr("close")>>>>),
     JNull,
     BadText("hello"),
     Binary("bytes")}

CloseArgs == {<<1000, "bye">>, <<1006, "">>}


(***************************************************************************)
(* request(): one physical exchange with the tunnel's HTTP endpoint         *)
(***************************************************************************)
\* A header value is text; Raw(s) is text that is not meant as JSON.
Raw(s) == Val("raw", s, <<>>, <<>>)

\* A physical header: `base` when suffix = 0, `base-<suffix>` otherwise,
\* carrying the part-th of `parts` consecutive substrings of text.
Physical(base, suffix, text, part, parts) ==
    [base |-> base, suffix |-> suffix, text |-> text, part |-> part, parts |-> parts]

Unset == [set |-> FALSE, nan |-> FALSE, n |-> 0, s |-> "", entries |-> <<>>]
Number(n) == [Unset EXCEPT !.set = TRUE, !.n = n]
NaN == [Unset EXCEPT !.set = TRUE, !.nan = TRUE]
String(s) == [Unset EXCEPT !.set = TRUE, !.s = s]
Entries(e) == [Unset EXCEPT !.set = TRUE, !.entries = e]

\* parseInt on the status strings a tunnel sends.
parseInt(text) ==
    CASE text.s = "201" -> Number(201)
      [] text.s = "404" -> Number(404)
      [] OTHER -> NaN

\* Headers.get: the value of the header named `name`, null (Undef) when it
\* is absent.  A chunk of a split value is not the value: it is cut text.
HeaderGet(hs, name) ==
    IF \E i \in 1..Len(hs) : hs[i].base = name /\ hs[i].suffix = 0
    THEN LET h == hs[CHOOSE i \in 1..Len(hs) : hs[i].base = name /\ hs[i].suffix = 0]
         IN  IF h.part = 1 /\ h.parts = 1 THEN h.text ELSE BadText("truncated")
    ELSE Undef

\* joinHeaders: the physical entries of one base name, by ascending suffix,
\* concatenated into one logical header; a group without its base entry or
\* with a gap in its suffixes is a codec error.
Group(hs, base) == SelectSeq(hs, LAMBDA h : h.base = base)
Suffixes(hs, base) == {h.suffix : h \in Range(Group(hs, base))}
Chunk(hs, base, n) == CHOOSE h \in Range(Group(hs, base)) : h.suffix = n
GroupIsSound(hs, base) == Suffixes(hs, base) = 0..(Len(Group(hs, base)) - 1)
Concatenation(hs, base) ==
    LET g == [n \in 1..Len(Group(hs, base)) |-> Chunk(hs, base, n - 1)]
    IN  IF \A n \in 1..Len(g) :
              g[n].part = n /\ g[n].parts = Len(g) /\ g[n].text = g[1].text
        THEN g[1].text
        ELSE BadText("truncated")
Bases(hs) == {h.base : h \in Range(hs)}
joinHeaders(hs) ==
    [ok |-> \A b \in Bases(hs) : GroupIsSound(hs, b),
     headers |-> SelectSeq([i \in 1..Len(hs) |->
                              IF hs[i].suffix = 0 /\ GroupIsSound(hs, hs[i].base)
                              THEN Physical(hs[i].base, 0,
                                            Concatenation(hs, hs[i].base), 1, 1)
                              ELSE Physical("", 1, Undef, 0, 0)],
                           LAMBDA h : h.suffix = 0)]

\* Response.ok
ok(response) == response.status \in 200..299

NoOutcome ==
    [kind |-> "none", status |-> Unset, statusText |-> Unset, headers |-> Unset,
     body |-> Undef, error |-> ""]
Returned(result) ==
    [NoOutcome EXCEPT !.kind = "response", !.status = result.status,
                      !.statusText = result.statusText, !.headers = result.headers]
BareError(status, body) ==
    [NoOutcome EXCEPT !.kind = "fault", !.status = Number(status), !.body = body]
Rejected(error) == [NoOutcome EXCEPT !.kind = "error", !.error = error]

\* Mutant of DecodeHeaders: the status text is looked up under a name the
\* tunnel does not send.
DecodeHeaders_statusTextMisnamed(hs) ==
    LET xBareStatus == HeaderGet(hs, "x-bare-status")
        xBareStatusText == HeaderGet(hs, "x-bare-statustext")
        xBareHeaders == HeaderGet(hs, "x-bare-headers")
        parsed == JSONParse(xBareHeaders)
    IN  IF xBareHeaders # Undef /\ ~parsed.ok THEN Rejected("SyntaxError")
        ELSE IF xBareHeaders # Undef /\ ~ObjectEntries(parsed.value).ok
             THEN Rejected("TypeError")
             ELSE Returned(
                    [status |-> IF xBareStatus # Undef THEN parseInt(xBareStatus)
                                ELSE Unset,
                     statusText |-> IF xBareStatusText # Undef
                                    THEN String(xBareStatusText.s) ELSE Unset,
                     headers |-> IF xBareHeaders # Undef
                                 THEN Entries(ObjectEntries(parsed.value).entries)
                                 ELSE Unset])

\* Mutant of DecodeHeaders: an absent x-bare-status is taken to be 200.
DecodeHeaders_defaultStatus(hs) ==
    LET xBareStatus == HeaderGet(hs, "x-bare-status")
        xBareStatusText == HeaderGet(hs, "x-bare-status-text")
        xBareHeaders == HeaderGet(hs, "x-bare-headers")
        parsed == JSONParse(xBareHeaders)
    IN  IF xBareHeaders # Undef /\ ~parsed.ok THEN Rejected("SyntaxError")
        ELSE IF xBareHeaders # Undef /\ ~ObjectEntries(parsed.value).ok
             THEN Rejected("TypeError")
             ELSE Returned(
                    [status |-> IF xBareStatus # Undef THEN parseInt(xBareStatus)
                                ELSE Number(200),
                     statusText |-> IF xBareStatusText # Undef
                                    THEN String(xBareStatusText.s) ELSE Unset,
                     headers |-> IF xBareHeaders # Undef
                                 THEN Entries(ObjectEntries(parsed.value).entries)
                                 ELSE Unset])

\* The decoding half of readBareResponse: the result object, or the
\* exception JSON.parse, Object.entries or joinHeaders throws.
DecodeHeaders(hs) ==
    LET xBareStatus == HeaderGet(hs, "x-bare-status")
        xBareStatusText == HeaderGet(hs, "x-bare-status-text")
        xBareHeaders == HeaderGet(hs, "x-bare-headers")
        parsed == JSONParse(xBareHeaders)
    IN  IF xBareHeaders # Undef /\ ~parsed.ok THEN Rejected("SyntaxError")
        ELSE IF xBareHeaders # Undef /\ ~ObjectEntries(parsed.value).ok
             THEN Rejected("TypeError")
             ELSE Returned(
                    [status |-> IF xBareStatus # Undef THEN parseInt(xBareStatus)
                                ELSE Unset,
                     statusText |-> IF xBareStatusText # Undef
                                    THEN String(xBareStatusText.s) ELSE Unset,
                     headers |-> IF xBareHeaders # Undef
                                 THEN Entries(ObjectEntries(parsed.value).entries)
                                 ELSE Unset])

\* Mutant of readBareResponse: the tunnel's own status is looked at only
\* when the response carries no x-bare-status.
readBareResponse_remoteStatusFirst(response) ==
    IF ~ok(response) /\ HeaderGet(response.headers, "x-bare-status") = Undef
    THEN [await |-> TRUE, outcome |-> NoOutcome]
    ELSE [await |-> FALSE,
          outcome |-> IF joinHeaders(response.headers).ok
                      THEN DecodeHeaders(joinHeaders(response.headers).headers)
                      ELSE Rejected("CodecError")]

\* readBareResponse up to its first suspension: it awaits the body of a
\* response that is not ok, and otherwise settles at once.
readBareResponse(response) ==
    IF ~ok(response) THEN [await |-> TRUE, outcome |-> NoOutcome]
    ELSE [await |-> FALSE,
          outcome |-> IF joinHeaders(response.headers).ok
                      THEN DecodeHeaders(joinHeaders(response.headers).headers)
                      ELSE Rejected("CodecError")]

\* createBareHeaders: the bare headers of the physical request.
createBareHeaders(remote, bareHeaders) ==
    [xBareUrl |-> toString(remote), xBareHeaders |-> ObjectFromEntries(bareHeaders)]

(***************************************************************************)
(* The tunnel: what it answers to a request                                *)
(***************************************************************************)
HeaderCollections ==
    {<<>>,
     <<<<"content-type", "text/plain">>>>,
     <<<<"content-type", "text/plain">>, <<"x-a", "1">>>>,
     <<<<"x-a", "1">>, <<"1", "one">>>>,
     <<<<"set-cookie", "a=1">>, <<"set-cookie", "b=2">>>>}

RemoteResponses ==
    [status : {201, 404}, statusText : {"Created"}, headers : HeaderCollections]

\* The decimal string of a status.
Decimal(n) == CASE n = 201 -> "201" [] n = 404 -> "404"

\* x-bare-headers as the tunnel writes it: a JSON object with one member per
\* header, or a JSON array of [name, value] entries.
EncodeHeaders(headers, form) ==
    IF form = "object"
    THEN JObj([i \in 1..Len(headers) |-> <<headers[i][1], JStr(headers[i][2])>>])
    ELSE JArr([i \in 1..Len(headers) |->
                 JArr(<<JStr(headers[i][1]), JStr(headers[i][2])>>)])

\* One header as physical entries: whole, in two chunks, or in two chunks
\* numbered with a gap.
Split(base, text, split) ==
    CASE split = "whole" -> <<Physical(base, 0, text, 1, 1)>>
      [] split = "two" -> <<Physical(base, 0, text, 1, 2), Physical(base, 1, text, 2, 2)>>
      [] split = "gap" -> <<Physical(base, 0, text, 1, 2), Physical(base, 2, text, 2, 2)>>

BareHeaderNames == {"x-bare-status", "x-bare-status-text", "x-bare-headers"}

\* A success carries any encoding of any remote response; a failure carries
\* a body, and with or without the bare headers of a remote response.
TunnelReplies ==
    [status : {200},
     remote : RemoteResponses,
     form : {"object", "entries"},
     split : {"whole", "two", "gap"},
     present : SUBSET BareHeaderNames,
     body : {BadText("payload")}]
    \cup
    [status : {404, 500},
     remote : [status : {201}, statusText : {"Created"},
               headers : {<<<<"content-type", "text/plain">>>>}],
     form : {"object"},
     split : {"whole"},
     present : {{}, BareHeaderNames},
     body : {JObj(<<<<"message", JStr("not found")>>>>), BadText("<html>")}]

ResponseOf(reply) ==
    [status |-> reply.status,
     headers |->
        (IF "x-bare-status" \in reply.present
         THEN <<Physical("x-bare-status", 0, Raw(Decimal(reply.remote.status)), 1, 1)>>
         ELSE <<>>)
        \o (IF "x-bare-headers" \in reply.present
            THEN Split("x-bare-headers",
                       EncodeHeaders(reply.remote.headers, reply.form), reply.split)
            ELSE <<>>)
        \o (IF "x-bare-status-text" \in reply.present
            THEN <<Physical("x-bare-status-text", 0, Raw(reply.remote.statusText), 1, 1)>>
            ELSE <<>>),
     body |-> reply.body]

NoReply ==
    [status |-> 0,
     remote |-> [status |-> 0, statusText |-> "", headers |-> <<>>],
     form |-> "", split |-> "", present |-> {}, body |-> Undef]

NoRequest ==
    [pc |-> "idle", remote |-> [protocol |-> "", host |-> "", path |-> ""],
     method |-> "", signal |-> FALSE, aborted |-> FALSE, fetches |-> <<>>,
     reply |-> NoReply, response |-> ResponseOf(NoReply), outcome |-> NoOutcome]

Methods == {"GET", "POST"}

\* A call the caller made: connect or request, its url or remote, its
\* protocols, and the header array it passed as the call left it.
CallOf(op, u, p, array) == [op |-> op, url |-> u, protocols |-> p, array |-> array]

(***************************************************************************)
(* The constructor: URLs and the two tunnel endpoints                      *)
(***************************************************************************)
\* A URL object is the record of its components; its text is their sequence
\* <<protocol, hostname, port, pathname, search>>.
SpecialSchemes == {"http:", "https:", "ws:", "wss:", "ftp:", "file:"}

DefaultPort(protocol) ==
    CASE protocol \in {"http:", "ws:"} -> "80"
      [] protocol \in {"https:", "wss:"} -> "443"
      [] protocol = "ftp:" -> "21"
      [] OTHER -> ""

\* url.href: the serialization of a URL object.
href(u) == <<u.protocol, u.hostname, u.port, u.pathname, u.search>>

\* new URL(text): the scheme's default port is dropped, a special scheme has
\* at least the path "/", and an empty query is no query.
URL(text) ==
    [protocol |-> text[1],
     hostname |-> text[2],
     port |-> IF text[3] = DefaultPort(text[1]) THEN "" ELSE text[3],
     pathname |-> IF text[4] = "" /\ text[1] \in SpecialSchemes THEN "/" ELSE text[4],
     search |-> IF text[5] = "?" THEN "" ELSE text[5]]

\* url.protocol = value: ignored between a special and a non-special scheme,
\* for "file:" on a URL with a port, and on a file URL without a host; the
\* port is dropped when it is the new scheme's default.
SetProtocol(u, value) ==
    IF (u.protocol \in SpecialSchemes) # (value \in SpecialSchemes) THEN u
    ELSE IF value = "file:" /\ u.port # "" THEN u
    ELSE IF u.protocol = "file:" /\ u.hostname = "" THEN u
    ELSE [u EXCEPT !.protocol = value,
                   !.port = IF u.port = DefaultPort(value) THEN "" ELSE u.port]

\* super(3, server): the base address of the tunnel server.
Client(server) == [constructed |-> TRUE, base |-> server]

\* Mutant of ClientV3: the WebSocket endpoint always gets the scheme ws.
ClientV3_alwaysWs(server) ==
    [constructed |-> TRUE,
     base |-> Client(server).base,
     ws |-> SetProtocol(URL(href(Client(server).base)), "ws:"),
     http |-> URL(href(Client(server).base))]

\* new ClientV3(server)
ClientV3(server) ==
    [constructed |-> TRUE,
     base |-> Client(server).base,
     ws |-> IF URL(href(Client(server).base)).protocol = "https:"
            THEN SetProtocol(URL(href(Client(server).base)), "wss:")
            ELSE SetProtocol(URL(href(Client(server).base)), "ws:"),
     http |-> URL(href(Client(server).base))]

NoURL == [protocol |-> "", hostname |-> "", port |-> "", pathname |-> "", search |-> ""]
NoClient == [constructed |-> FALSE, base |-> NoURL, ws |-> NoURL, http |-> NoURL]

\* The URL objects a caller can construct the client with.
ServerTexts ==
    {<<s, h, p, d, q>> : s \in {"http:", "https:", "ftp:", "foo:"},
                         h \in {"bare.example", "localhost"},
                         p \in {"", "80", "443", "8080"},
                         d \in {"/", "/bare/"},
                         q \in {"", "?k=v"}}
Servers == {URL(text) : text \in ServerTexts}

\* The tunnel server of the connect and request calls followed below.
TunnelServer == URL(<<"https:", "bare.example", "", "/bare/", "">>)

(***************************************************************************)
(* Spec: one connect() call                                                *)
(***************************************************************************)
Init ==
    /\ pc = "idle"
    /\ url = [protocol |-> "", host |-> "", path |-> ""]
    /\ protocols = <<>>
    /\ requestHeaders = <<>>
    /\ wsState = "NONE"
    /\ listeners = [open |-> <<>>, message |-> <<>>, close |-> <<>>, error |-> <<>>]
    /\ wire = <<>>
    /\ calls = <<>>
    /\ events = <<>>
    /\ thrown = <<>>
    /\ sends = 0
    /\ rq = NoRequest
    /\ callerCalls = <<>>
    /\ client = ClientV3(TunnelServer)

\* Mutant of Connect: the Connect control message is sent as soon as the
\* socket is constructed, without waiting for its open event.
Connect_sendsAtOnce(u, p, h) ==
    /\ pc = "idle"
    /\ pc' = "connected"
    /\ url' = u
    /\ protocols' = p
    /\ requestHeaders' = h \o <<<<"Host", u.host>>, <<"Upgrade", "websocket">>,
                                <<"Connection", "Upgrade">>>>
    /\ Becomes(send([Socket("CONNECTING") EXCEPT !.listeners = InitialListeners],
                    "openListener",
                    ControlPayload(SocketClientToServer(u, p, requestHeaders'))))
    /\ callerCalls' = Append(callerCalls, CallOf("connect", u, p, requestHeaders'))
    /\ UNCHANGED <<sends, rq, client>>

\* connect(url, protocols, requestHeaders, onopen, onmessage, onclose, onerror)
Connect(u, p, h) ==
    /\ pc = "idle"
    /\ pc' = "connected"
    /\ url' = u
    /\ protocols' = p
    /\ requestHeaders' = h \o <<<<"Host", u.host>>, <<"Upgrade", "websocket">>,
                                <<"Connection", "Upgrade">>>>
    /\ wsState' = "CONNECTING"
    /\ listeners' = InitialListeners
    /\ callerCalls' = Append(callerCalls, CallOf("connect", u, p, requestHeaders'))
    /\ UNCHANGED <<wire, calls, events, thrown, sends, rq, client>>

\* The socket reports open.
SocketOpen ==
    /\ pc = "connected"
    /\ wsState = "CONNECTING"
    /\ Becomes(dispatchEvent(Event("open", Undef, 0, ""), Socket("OPEN")))
    /\ UNCHANGED <<pc, url, protocols, requestHeaders, sends, rq, callerCalls, client>>

\* A frame arrives.
SocketMessage(f) ==
    /\ pc = "connected"
    /\ wsState = "OPEN"
    /\ Len(MessageEvents) < MaxFrames
    /\ Becomes(dispatchEvent(Event("message", f, 0, ""), Socket(wsState)))
    /\ UNCHANGED <<pc, url, protocols, requestHeaders, sends, rq, callerCalls, client>>

\* The connection fails: the socket is closed and fires error, then close.
SocketError ==
    /\ pc = "connected"
    /\ wsState \in {"CONNECTING", "OPEN", "CLOSING"}
    /\ Becomes(dispatchEvent(Event("error", Undef, 0, ""), Socket("CLOSED")))
    /\ UNCHANGED <<pc, url, protocols, requestHeaders, sends, rq, callerCalls, client>>

\* The close event: after a failure, or when an opened connection ends.
SocketClose(c) ==
    /\ pc = "connected"
    /\ ~Fired("close")
    /\ \/ Fired("open") /\ wsState \in {"OPEN", "CLOSING"}
       \/ Fired("error")
    /\ Becomes(dispatchEvent(Event("close", Undef, c[1], c[2]), Socket("CLOSED")))
    /\ UNCHANGED <<pc, url, protocols, requestHeaders, sends, rq, callerCalls, client>>

\* The caller uses the returned send function.
CallerSend(d) ==
    /\ pc = "connected"
    /\ sends < MaxSends
    /\ sends' = sends + 1
    /\ Becomes(send(Socket(wsState), "send", DataPayload(d)))
    /\ UNCHANGED <<pc, url, protocols, requestHeaders, rq, callerCalls, client>>

\* The caller uses the returned close function.
CallerClose ==
    /\ pc = "connected"
    /\ wsState \in {"CONNECTING", "OPEN"}
    /\ wsState' = "CLOSING"
    /\ UNCHANGED <<pc, url, protocols, requestHeaders, listeners, wire, calls, events,
                   thrown, sends, rq, callerCalls, client>>

Next ==
    \/ \E u \in Urls, p \in ProtocolLists, h \in HeaderArrays : Connect(u, p, h)
    \/ SocketOpen
    \/ \E f \in Frames : SocketMessage(f)
    \/ SocketError
    \/ \E c \in CloseArgs : SocketClose(c)
    \/ \E d \in {BadText("hello")} : CallerSend(d)
    \/ CallerClose

Spec == Init /\ [][Next]_vars

(***************************************************************************)
(* SpecRequest: one request() call                                         *)
(***************************************************************************)
\* Mutant of Request: the caller's signal is left out of the fetch options.
Request_withoutSignal(remote, method, h, signal) ==
    /\ rq.pc = "idle"
    /\ requestHeaders' = Append(h, <<"Host", remote.host>>)
    /\ rq' = [rq EXCEPT !.pc = "fetching", !.remote = remote, !.method = method,
                        !.signal = signal,
                        !.fetches = Append(@,
                            [method |-> method, credentials |-> "omit", signal |-> FALSE,
                             headers |-> createBareHeaders(remote, requestHeaders')])]
    /\ callerCalls' = Append(callerCalls, CallOf("request", remote, <<>>, requestHeaders'))
    /\ UNCHANGED <<pc, url, protocols, wsState, listeners, wire, calls, events, thrown,
                   sends, client>>

\* Mutant of Request: the Host entry is put in front of the caller's entries.
Request_hostFirst(remote, method, h, signal) ==
    /\ rq.pc = "idle"
    /\ requestHeaders' = <<<<"Host", remote.host>>>> \o h
    /\ rq' = [rq EXCEPT !.pc = "fetching", !.remote = remote, !.method = method,
                        !.signal = signal,
                        !.fetches = Append(@,
                            [method |-> method, credentials |-> "omit", signal |-> signal,
                             headers |-> createBareHeaders(remote, requestHeaders')])]
    /\ callerCalls' = Append(callerCalls, CallOf("request", remote, <<>>, requestHeaders'))
    /\ UNCHANGED <<pc, url, protocols, wsState, listeners, wire, calls, events, thrown,
                   sends, client>>

\* Mutant of Request: the Host entries of the caller are replaced, not added to.
Request_replacesHost(remote, method, h, signal) ==
    /\ rq.pc = "idle"
    /\ requestHeaders' = Append(SelectSeq(h, LAMBDA e : e[1] # "Host"),
                                <<"Host", remote.host>>)
    /\ rq' = [rq EXCEPT !.pc = "fetching", !.remote = remote, !.method = method,
                        !.signal = signal,
                        !.fetches = Append(@,
                            [method |-> method, credentials |-> "omit", signal |-> signal,
                             headers |-> createBareHeaders(remote, requestHeaders')])]
    /\ callerCalls' = Append(callerCalls, CallOf("request", remote, <<>>, requestHeaders'))
    /\ UNCHANGED <<pc, url, protocols, wsState, listeners, wire, calls, events, thrown,
                   sends, client>>

\* request(remote, method, body, headers, signal) up to its await of fetch.
Request(remote, method, h, signal) ==
    /\ rq.pc = "idle"
    /\ requestHeaders' = Append(h, <<"Host", remote.host>>)
    /\ rq' = [rq EXCEPT !.pc = "fetching", !.remote = remote, !.method = method,
                        !.signal = signal,
                        !.fetches = Append(@,
                            [method |-> method, credentials |-> "omit", signal |-> signal,
                             headers |-> createBareHeaders(remote, requestHeaders')])]
    /\ callerCalls' = Append(callerCalls, CallOf("request", remote, <<>>, requestHeaders'))
    /\ UNCHANGED <<pc, url, protocols, wsState, listeners, wire, calls, events, thrown,
                   sends, client>>

\* fetch resolves with the tunnel's response, and request runs on through
\* readBareResponse to its next suspension or to its end.
FetchResolves(reply) ==
    /\ rq.pc = "fetching"
    /\ rq' = [rq EXCEPT !.reply = reply, !.response = ResponseOf(reply),
                        !.pc = IF readBareResponse(ResponseOf(reply)).await
                               THEN "readingBody" ELSE "done",
                        !.outcome = readBareResponse(ResponseOf(reply)).outcome]
    /\ UNCHANGED <<connectVars>>

\* Mutant of FetchRejects: the failed exchange is tried again.
FetchRejects_retries ==
    /\ rq.pc = "fetching"
    /\ rq' = [rq EXCEPT !.fetches = Append(@, @[Len(@)])]
    /\ UNCHANGED <<connectVars>>

\* fetch rejects: the exchange failed in the network.
FetchRejects ==
    /\ rq.pc = "fetching"
    /\ rq' = [rq EXCEPT !.pc = "done", !.outcome = Rejected("TypeError")]
    /\ UNCHANGED <<connectVars>>

\* response.json() settles: readBareResponse throws the BareError, or the
\* SyntaxError of a body that is not JSON.
BodyRead ==
    /\ rq.pc = "readingBody"
    /\ rq' = [rq EXCEPT !.pc = "done",
                        !.outcome = IF JSONParse(rq.response.body).ok
                                    THEN BareError(rq.response.status,
                                                   JSONParse(rq.response.body).value)
                                    ELSE Rejected("SyntaxError")]
    /\ UNCHANGED <<connectVars>>

\* The caller's AbortSignal fires while the call is pending: when fetch was
\* given the signal, the pending fetch or body read rejects with an AbortError.
SignalAbort ==
    /\ rq.pc \in {"fetching", "readingBody"}
    /\ rq.signal
    /\ ~rq.aborted
    /\ rq' = IF rq.fetches[Len(rq.fetches)].signal
             THEN [rq EXCEPT !.pc = "done", !.aborted = TRUE,
                             !.outcome = Rejected("AbortError")]
             ELSE [rq EXCEPT !.aborted = TRUE]
    /\ UNCHANGED <<connectVars>>

NextRequest ==
    \/ \E remote \in Urls, method \in Methods, h \in HeaderArrays, signal \in BOOLEAN :
          Request(remote, method, h, signal)
    \/ \E reply \in TunnelReplies : FetchResolves(reply)
    \/ FetchRejects
    \/ BodyRead
    \/ SignalAbort

SpecRequest == Init /\ [][NextRequest]_vars

(***************************************************************************)
(* SpecCalls: a caller that passes one header array to every call.  The     *)
(* socket followed is that of the first connect() call; the sockets of      *)
(* later connect() calls are created and left connecting.                   *)
(***************************************************************************)
InitCalls ==
    /\ pc = "idle"
    /\ url = [protocol |-> "", host |-> "", path |-> ""]
    /\ protocols = <<>>
    /\ requestHeaders \in HeaderArrays
    /\ wsState = "NONE"
    /\ listeners = [open |-> <<>>, message |-> <<>>, close |-> <<>>, error |-> <<>>]
    /\ wire = <<>>
    /\ calls = <<>>
    /\ events = <<>>
    /\ thrown = <<>>
    /\ sends = 0
    /\ rq = NoRequest
    /\ callerCalls = <<>>
    /\ client = ClientV3(TunnelServer)

\* connect(u, p, requestHeaders, ...): the first connect call of the caller.
ConnectShared(u, p) ==
    /\ Len(callerCalls) < MaxCalls
    /\ Connect(u, p, requestHeaders)

\* connect(u, p, requestHeaders, ...) again: the same array gets the three
\* entries of this call, and the call has a socket and listeners of its own.
ConnectAgain(u, p) ==
    /\ pc = "connected"
    /\ Len(callerCalls) < MaxCalls
    /\ requestHeaders' = requestHeaders \o <<<<"Host", u.host>>, <<"Upgrade", "websocket">>,
                                             <<"Connection", "Upgrade">>>>
    /\ callerCalls' = Append(callerCalls, CallOf("connect", u, p, requestHeaders'))
    /\ UNCHANGED <<pc, url, protocols, wsState, listeners, wire, calls, events, thrown,
                   sends, rq, client>>

\* request(remote, method, body, requestHeaders, signal)
RequestShared(remote, method, signal) ==
    /\ Len(callerCalls) < MaxCalls
    /\ Request(remote, method, requestHeaders, signal)

\* The caller has the outcome of its request call; its next call starts anew.
RequestSettled ==
    /\ rq.pc = "done"
    /\ rq' = NoRequest
    /\ UNCHANGED <<connectVars>>

SomeReplies ==
    {r \in TunnelReplies :
        /\ r.present = BareHeaderNames
        /\ r.split = "whole"
        /\ r.form = "object"
        /\ r.remote.status = 201
        /\ r.remote.headers = <<<<"content-type", "text/plain">>>>
        /\ r.status \in {200, 404}
        /\ r.body.t # "bad" \/ r.status = 200}

NextCalls ==
    \/ \E u \in Urls, p \in ProtocolLists : ConnectShared(u, p)
    \/ \E u \in Urls, p \in ProtocolLists : ConnectAgain(u, p)
    \/ \E remote \in Urls, method \in Methods, signal \in BOOLEAN :
          RequestShared(remote, method, signal)
    \/ RequestSettled
    \/ SocketOpen
    \/ \E reply \in SomeReplies : FetchResolves(reply)
    \/ FetchRejects
    \/ BodyRead
    \/ SignalAbort

SpecCalls == InitCalls /\ [][NextCalls]_vars

(***************************************************************************)
(* SpecConstruct: construction of the client                               *)
(***************************************************************************)
InitConstruct ==
    /\ pc = "idle"
    /\ url = [protocol |-> "", host |-> "", path |-> ""]
    /\ protocols = <<>>
    /\ requestHeaders = <<>>
    /\ wsState = "NONE"
    /\ listeners = [open |-> <<>>, message |-> <<>>, close |-> <<>>, error |-> <<>>]
    /\ wire = <<>>
    /\ calls = <<>>
    /\ events = <<>>
    /\ thrown = <<>>
    /\ sends = 0
    /\ rq = NoRequest
    /\ callerCalls = <<>>
    /\ client = NoClient

\* new ClientV3(server)
Construct(server) ==
    /\ ~client.constructed
    /\ client' = ClientV3(server)
    /\ UNCHANGED <<pc, url, protocols, requestHeaders, wsState, listeners, wire, calls,
                   events, thrown, sends, rq, callerCalls>>

NextConstruct == \E server \in Servers : Construct(server)

SpecConstruct == InitConstruct /\ [][NextConstruct]_vars

(***************************************************************************)
(* Claims about connect(), checked under Spec                              *)
(***************************************************************************)
ConnectSends == SelectSeq(wire, LAMBDA w : w.kind = "control")
OnopenCalls == SelectSeq(calls, LAMBDA c : c.cb = "onopen")
OnmessageCalls == SelectSeq(calls, LAMBDA c : c.cb = "onmessage")
OncloseCalls == SelectSeq(calls, LAMBDA c : c.cb = "onclose")
OnerrorCalls == SelectSeq(calls, LAMBDA c : c.cb = "onerror")
CloseEvents == SelectSeq(events, LAMBDA e : e.type = "close")
DataOf(seq) == [i \in 1..Len(seq) |-> seq[i].data]
CodeAndReason(seq) == [i \in 1..Len(seq) |-> <<seq[i].code, seq[i].text>>]

\* What the wire contract says of a first frame, stated on the frame itself.
OpenProtocols == {"chat", ""}
FirstFrame == MessageEvents[1].data
FirstFrameIsOpen == MessageEvents # <<>> /\ \E p \in OpenProtocols : FirstFrame = OpenFrame(p)
FirstFrameIsViolation ==
    /\ MessageEvents # <<>>
    /\ \/ FirstFrame.t \in {"bin", "bad"}
       \/ ~(FirstFrame.t = "obj" /\ <<"type", JStr("open")>> \in Range(FirstFrame.members))

\* C1: within one connect call the Connect control message is written to the
\* socket at most once, and no attempt to send it is made before the socket
\* has reported open.
C1_ConnectSentOnceAfterOpen ==
    /\ Len(ConnectSends) <= 1
    /\ ConnectSends # <<>> => Fired("open")
    /\ \A i \in 1..Len(thrown) : thrown[i].by # "openListener"

C1_Witness ==
    /\ Len(ConnectSends) = 1
    /\ Len(MessageEvents) = MaxFrames
    /\ Fired("error")
    /\ Fired("close")

\* C2: onmessage is never invoked before onopen, the first incoming frame is
\* never delivered to onmessage, and a first frame that is the Open control
\* message with protocol p makes onopen be invoked exactly once, as onopen(p, "").
C2_OpenBeforeMessages ==
    /\ \A i \in 1..Len(calls) :
          calls[i].cb = "onmessage" => \E j \in 1..(i - 1) : calls[j].cb = "onopen"
    /\ Len(OnmessageCalls) = 0 \/ Len(OnmessageCalls) < Len(MessageEvents)
    /\ \A p \in OpenProtocols :
          (MessageEvents # <<>> /\ FirstFrame = OpenFrame(p))
             => OnopenCalls = <<Invocation("onopen", JStr(p), 0, "")>>

C2_Witness ==
    /\ Len(MessageEvents) = 2
    /\ FirstFrame = OpenFrame("chat")
    /\ calls = <<Invocation("onopen", JStr("chat"), 0, ""),
                 Invocation("onmessage", BadText("hello"), 0, "")>>

\* C3: once the Open control message has been accepted, every later message
\* event is delivered to onmessage exactly once, in arrival order and with its
\* data unmodified, whatever its content; onopen is not invoked again and no
\* handshake error is raised.
C3_PassThroughAfterOpen ==
    FirstFrameIsOpen =>
        /\ DataOf(OnmessageCalls) = DataOf(Tail(MessageEvents))
        /\ Len(OnopenCalls) = 1
        /\ \A i \in 1..Len(thrown) : thrown[i].by # "messageListener"

C3_Witness ==
    /\ FirstFrameIsOpen
    /\ Len(MessageEvents) = 3
    /\ MessageEvents[2].data = OpenFrame("chat")
    /\ MessageEvents[3].data = Binary("bytes")
    /\ Len(OnmessageCalls) = 2

\* C4: when the first incoming frame is a handshake protocol violation,
\* neither onopen nor onmessage is invoked, for that frame or any later one.
C4_ViolationInvokesNothing ==
    FirstFrameIsViolation => OnopenCalls = <<>> /\ OnmessageCalls = <<>>

C4_Witness ==
    /\ FirstFrameIsViolation
    /\ Len(MessageEvents) = 3
    /\ MessageEvents[2].data = OpenFrame("chat")
    /\ OnopenCalls = <<>>

\* C5: a handshake protocol violation on the first frame is reported to the
\* caller: onerror is invoked or the socket is terminated, so the caller never
\* holds an open socket without a callback having signalled the failure.
C5_ViolationReported ==
    FirstFrameIsViolation => (OnerrorCalls # <<>> \/ wsState \in {"CLOSING", "CLOSED"})

\* C6: every close event of the socket, in whatever state of the call, is
\* delivered as onclose(code, reason) with the event's code and reason.
C6_CloseDelivered ==
    CodeAndReason(OncloseCalls) = CodeAndReason(CloseEvents)

\* C7: an error event of the socket, in any state, is surfaced to the caller
\* by invoking onerror.
C7_ErrorSurfaced ==
    Fired("error") => OnerrorCalls # <<>>

Answered == rq.reply # NoReply
TunnelFailed == Answered /\ rq.reply.status \notin 200..299
TunnelSucceeded == Answered /\ rq.reply.status \in 200..299
Sent(name) == name \in rq.reply.present
PairsOf(headers) == [i \in 1..Len(headers) |-> <<headers[i][1], JStr(headers[i][2])>>]
IndexedEntries(headers) ==
    [i \in 1..Len(headers) |->
        <<IndexStr(i - 1), JArr(<<JStr(headers[i][1]), JStr(headers[i][2])>>)>>]
PlainNames(headers) ==
    /\ \A i, j \in 1..Len(headers) : headers[i][1] = headers[j][1] => i = j
    /\ \A i \in 1..Len(headers) : headers[i][1] \notin Range(Digits)

\* C9: a request whose physical response has a non-success status never
\* returns a logical response, whatever bare headers the response carries; a
\* tunnel fault carries exactly the physical status and the body parsed as
\* JSON, and it is how the call ends once that body has been read as JSON.
C9_TunnelFault ==
    /\ TunnelFailed => rq.outcome.kind # "response"
    /\ rq.outcome.kind = "fault" =>
          /\ TunnelFailed
          /\ rq.outcome.status = Number(rq.reply.status)
          /\ rq.outcome.body = rq.reply.body
          /\ rq.outcome.headers = Unset
    /\ (TunnelFailed /\ rq.pc = "done" /\ ~rq.aborted /\ rq.reply.body.t = "obj")
          => rq.outcome.kind = "fault"

C9_Witness ==
    /\ rq.pc = "done"
    /\ rq.reply.status = 404
    /\ rq.reply.present = BareHeaderNames
    /\ rq.outcome = BareError(404, JObj(<<<<"message", JStr("not found")>>>>))

\* C10 as claimed: x-bare-headers in the array-of-entries form yields the
\* header collection it lists, one (name, value) pair per entry.
C10_EntriesFormDecoded ==
    (rq.outcome.kind = "response" /\ Sent("x-bare-headers") /\ rq.reply.form = "entries")
        => rq.outcome.headers = Entries(PairsOf(rq.reply.remote.headers))

\* C10, amended: a tunnel success whose headers are whole or properly chunked
\* returns status = the integer of x-bare-status, statusText =
\* x-bare-status-text and headers = the entries of the value of x-bare-headers:
\* for a JSON object with distinct, not index-like names one (name, value)
\* pair per member in the encoded order, and for the array-of-entries form
\* one pair per entry, named by the entry's index and holding the entry.
C10_SuccessDecoded ==
    /\ (TunnelSucceeded /\ rq.pc = "done"
          /\ (Sent("x-bare-headers") => rq.reply.split # "gap"))
          => rq.outcome.kind = "response"
    /\ rq.outcome.kind = "response" =>
          /\ Sent("x-bare-status") => rq.outcome.status = Number(rq.reply.remote.status)
          /\ Sent("x-bare-status-text")
                => rq.outcome.statusText = String(rq.reply.remote.statusText)
          /\ (Sent("x-bare-headers") /\ rq.reply.form = "object"
                /\ PlainNames(rq.reply.remote.headers))
                => rq.outcome.headers = Entries(PairsOf(rq.reply.remote.headers))
          /\ (Sent("x-bare-headers") /\ rq.reply.form = "entries")
                => rq.outcome.headers = Entries(IndexedEntries(rq.reply.remote.headers))

C10_Witness ==
    /\ rq.pc = "done"
    /\ rq.reply.form = "entries"
    /\ rq.reply.split = "two"
    /\ rq.reply.present = BareHeaderNames
    /\ rq.outcome.status = Number(201)
    /\ rq.outcome.statusText = String("Created")
    /\ rq.outcome.headers =
          Entries(<<<<"0", JArr(<<JStr("content-type"), JStr("text/plain")>>)>>>>)

(***************************************************************************)
(* Claims about calls that share a header array, checked under SpecCalls    *)
(***************************************************************************)
\* The connect() call whose socket is followed, as the caller made it.
ConnectCall ==
    callerCalls[CHOOSE i \in 1..Len(callerCalls) :
                   /\ callerCalls[i].op = "connect"
                   /\ \A j \in 1..(i - 1) : callerCalls[j].op # "connect"]

\* C11: the Connect control message sent for a connect call carries the
\* remote URL, the protocols and the headers of that call only, Host being
\* that call's remote host, whatever calls were made before its socket opened.
C11_ConnectOfItsOwnCall ==
    \A i \in 1..Len(wire) :
        wire[i].kind = "control" =>
            /\ wire[i].msg.remote = toString(ConnectCall.url)
            /\ wire[i].msg.protocols = ConnectCall.protocols
            /\ Member(wire[i].msg.headers, "Host") = JStr(ConnectCall.url.host)
            /\ wire[i].msg.headers = ObjectFromEntries(ConnectCall.array)

(***************************************************************************)
(* More claims about request(), checked under SpecRequest                  *)
(***************************************************************************)
\* C12: when the caller's signal fires before the call has completed, before
\* the response arrives or while a failure body is read, the call fails with
\* the abort error: no logical response, no tunnel fault, and no further
\* physical request.
C12_AbortFailsTheCall ==
    rq.aborted =>
        /\ rq.pc = "done"
        /\ rq.outcome = Rejected("AbortError")
        /\ Len(rq.fetches) = 1

C12_Witness ==
    /\ rq.aborted
    /\ rq.reply.status = 404
    /\ rq.reply.present = BareHeaderNames
    /\ rq.outcome.kind = "error"

\* C13: each request call issues exactly one physical request, whatever its
\* outcome: a tunnel fault or a transport error ends the call and is never
\* followed by another physical request.
C13_OnePhysicalRequest ==
    /\ rq.pc = "idle" => rq.fetches = <<>>
    /\ rq.pc # "idle" => Len(rq.fetches) = 1
    /\ rq.pc = "done" <=> rq.outcome.kind \in {"response", "fault", "error"}

C13_Witness ==
    /\ rq.pc = "done"
    /\ rq.outcome.kind = "error"
    /\ rq.outcome.error = "TypeError"
    /\ ~Answered
    /\ Len(rq.fetches) = 1

(***************************************************************************)
(* More claims about connect(), checked under Spec                         *)
(***************************************************************************)
\* C15: the Connect control message is the first payload written to the
\* socket of a connect call: no data the caller passes to the returned send
\* function is on the wire before it, also when the caller calls send before
\* the socket has opened or before the handshake reply has arrived.
C15_ConnectIsFirstPayload ==
    \A i \in 1..Len(wire) :
        wire[i].kind = "data" => (i > 1 /\ wire[1] = ControlPayload(ConnectMessage))

\* The caller called send before the socket had opened, and the socket has
\* opened since.
C15_Witness ==
    /\ \E i \in 1..Len(thrown) :
          thrown[i] = [by |-> "send", error |-> "InvalidStateError"]
    /\ wire = <<ControlPayload(ConnectMessage)>>
    /\ OnopenCalls = <<>>

(***************************************************************************)
(* Claims about the encoding of the caller's headers                       *)
(***************************************************************************)
\* A pair of the caller's collection is represented in an encoded object when
\* the object has the pair's name with the pair's value, alone or as one of
\* a list of values.
Represents(object, pair) ==
    /\ HasMember(object, pair[1])
    /\ \/ Member(object, pair[1]) = JStr(pair[2])
       \/ /\ Member(object, pair[1]).t = "arr"
          /\ JStr(pair[2]) \in Range(Member(object, pair[1]).items)

\* Every pair of the array is represented, Host pairs aside (the call sets
\* Host itself), and the names come in the order of the array.
Lossless(object, array) ==
    /\ \A i \in 1..Len(array) : array[i][1] # "Host" => Represents(object, array[i])
    /\ \A i, j \in 1..Len(object.members) :
          i < j => \E a, b \in 1..Len(array) :
                      /\ a < b
                      /\ array[a][1] = object.members[i][1]
                      /\ array[b][1] = object.members[j][1]

\* C16: the encoding of the caller's ordered header collection into the
\* x-bare-headers value of request and into the headers field of the Connect
\* control message loses no pair: every (name, value) pair the caller
\* supplied is represented, in the original order, pairs that share a name
\* included.
C16_NoPairLost ==
    /\ rq.pc # "idle" =>
          Lossless(rq.fetches[1].headers.xBareHeaders,
                   callerCalls[Len(callerCalls)].array)
    /\ \A i \in 1..Len(wire) :
          wire[i].kind = "control" => Lossless(wire[i].msg.headers, requestHeaders)

\* C17: for every remote URL and every header collection of the caller, one
\* that already has a Host entry with another value included, the
\* x-bare-headers object sent by request has a Host entry equal to the remote
\* URL's host, and x-bare-url is the serialized remote URL.
C17_HostOfTheRemote ==
    rq.pc # "idle" =>
        /\ Member(rq.fetches[1].headers.xBareHeaders, "Host") = JStr(rq.remote.host)
        /\ rq.fetches[1].headers.xBareUrl = toString(rq.remote)

C17_Witness ==
    /\ rq.pc = "fetching"
    /\ rq.remote.host = "b.example"
    /\ callerCalls[1].array[1] = <<"Host", "c.example">>
    /\ Member(rq.fetches[1].headers.xBareHeaders, "Host") = JStr("b.example")

(***************************************************************************)
(* More claims about calls that share a header array, under SpecCalls      *)
(***************************************************************************)
\* The entries a call appends to the array it is given.
Appended(call) ==
    IF call.op = "request" THEN <<<<"Host", call.url.host>>>>
    ELSE <<<<"Host", call.url.host>>, <<"Upgrade", "websocket">>,
           <<"Connection", "Upgrade">>>>

\* C19: each request call appends exactly one entry (Host) and each connect
\* call exactly three (Host, Upgrade, Connection) to the array the caller
\* passed, and changes no existing entry, and nothing else changes the array:
\* n calls on one array grow it by n (request) or 3n (connect) entries; the
\* Host sent for a request is that request's own remote host all the same.
C19_CallsAppendOnly ==
    [][/\ callerCalls' = callerCalls => requestHeaders' = requestHeaders
       /\ callerCalls' # callerCalls =>
             /\ Len(callerCalls') = Len(callerCalls) + 1
             /\ requestHeaders' =
                   requestHeaders \o Appended(callerCalls'[Len(callerCalls')])
             /\ callerCalls'[Len(callerCalls')].array = requestHeaders'
       /\ rq'.pc # "idle" =>
             Member(rq'.fetches[1].headers.xBareHeaders, "Host") = JStr(rq'.remote.host)
      ]_vars

\* Three request calls on one array of three entries, to two remotes.
C19_Witness ==
    /\ Len(callerCalls) = 3
    /\ \A i \in 1..3 : callerCalls[i].op = "request"
    /\ callerCalls[2].url.host = "a.example"
    /\ callerCalls[3].url.host = "b.example"
    /\ Len(requestHeaders) = 6
    /\ requestHeaders[1] = <<"Host", "c.example">>
    /\ requestHeaders[5] = <<"Host", "a.example">>
    /\ Member(rq.fetches[1].headers.xBareHeaders, "Host") = JStr("b.example")

(***************************************************************************)
(* Claims about incomplete responses, checked under SpecRequest            *)
(***************************************************************************)
\* The outcome of the same reply had the tunnel sent all three bare headers.
OutcomeOfComplete ==
    readBareResponse(ResponseOf([rq.reply EXCEPT !.present = BareHeaderNames])).outcome

\* C18: when a tunnel success response lacks x-bare-status,
\* x-bare-status-text or x-bare-headers, request still returns a logical
\* response and leaves the field of each absent header (status, statusText,
\* headers) unset: no default is substituted and no error is raised, and the
\* fields of the headers that are present are what they are when all three
\* headers are present.
C18_AbsentLeftUnset ==
    (/\ TunnelSucceeded
     /\ rq.pc = "done"
     /\ rq.reply.present # BareHeaderNames
     /\ OutcomeOfComplete.kind = "response")
        => /\ rq.outcome.kind = "response"
           /\ ~Sent("x-bare-status") => rq.outcome.status = Unset
           /\ ~Sent("x-bare-status-text") => rq.outcome.statusText = Unset
           /\ ~Sent("x-bare-headers") => rq.outcome.headers = Unset
           /\ Sent("x-bare-status") => rq.outcome.status = OutcomeOfComplete.status
           /\ Sent("x-bare-status-text")
                 => rq.outcome.statusText = OutcomeOfComplete.statusText
           /\ Sent("x-bare-headers") => rq.outcome.headers = OutcomeOfComplete.headers

C18_Witness ==
    /\ rq.pc = "done"
    /\ rq.reply.status = 200
    /\ rq.reply.present = {"x-bare-status-text"}
    /\ rq.outcome.kind = "response"
    /\ rq.outcome.status = Unset
    /\ rq.outcome.statusText = String("Created")
    /\ rq.outcome.headers = Unset

(***************************************************************************)
(* Claims about the constructor, checked under SpecConstruct               *)
(***************************************************************************)
\* C14: for a tunnel server whose base URL has the scheme http or https, the
\* WebSocket endpoint derived at construction is the base URL with only the
\* scheme changed, http to ws and https to wss (host, port, path and query
\* preserved), and the HTTP endpoint is the base URL unchanged.
C14_EndpointsDerived ==
    (client.constructed /\ client.base.protocol \in {"http:", "https:"}) =>
        /\ client.ws = [client.base EXCEPT
                           !.protocol = IF client.base.protocol = "https:"
                                        THEN "wss:" ELSE "ws:"]
        /\ client.http = client.base
        /\ href(client.http) = href(client.base)

C14_Witness ==
    /\ client.constructed
    /\ client.base.protocol = "https:"
    /\ client.base.port = "80"
    /\ client.base.search = "?k=v"
    /\ client.ws.protocol = "wss:"
    /\ client.ws.port = "80"

====
